---- MODULE Spec2Model ----
(***************************************************************************)
(* A model of rsincr (src/rsincr.py): a wrapper around rsync that makes    *)
(* dated, hardlinked snapshots on a remote server and repoints a 'latest'  *)
(* symlink at the newest one.                                              *)
(*                                                                         *)
(* Four specifications share this module:                                  *)
(*   SpecLock      several invocations of main() racing for the lockfile   *)
(*   SpecSchedule  the backup type decision (main, get_backup_type)        *)
(*   SpecOptions   the rsync option list assembled by backup()             *)
(*   Spec          successive runs of main() against the remote server     *)
(***************************************************************************)
EXTENDS Naturals, Sequences, FiniteSets, TLC

VARIABLES
    \* ---- SpecLock: the lockfile and the invocations racing for it
    lk_pc,        \* lk_pc[p]: where invocation p is in main()
    lockfile,     \* the inode the lockfile path names, NoInode when no such file
    inodes,       \* number of inodes created so far for the lockfile path
    lockfile_handle, \* lockfile_handle[p]: the inode p's open file refers to
    lockedBy,     \* lockedBy[i]: the process holding the lock on inode i
    registered,   \* registered[p]: p registered remove_lockfile with atexit
    issued,       \* issued[p]: backup/purge calls p has made
    removed,      \* removed[p]: p's remove_lockfile has unlinked the path
    announced,    \* announced[p]: p has decided and printed its backup type
    lk_exit,      \* lk_exit[p]: the exit status and the stderr text of an
                  \* invocation that ended before its job loop (the status of
                  \* one that got to its jobs is exit_status, below)
    \* ---- SpecSchedule: the backup type decision
    config,            \* the loaded configuration (sections present in it)
    force_full_backup, \* args.force_full_backup
    today,             \* the current date, in days after 2019-01-01
    backup_type,       \* what the decision gave ("none" before it is taken)
    consulted,         \* get_backup_type has read the schedule
    caller,            \* who asked for the decision: "main" or "test"
    \* ---- SpecOptions: the rsync option list of backup()
    rsync_section,     \* config['rsync']: the keys set in it
    backup_job,        \* config['backup_jobs'][name]: the optional keys set in it
    job_backup_type,   \* the backup_type argument of backup()
    rsync_options,     \* the list handed to sysrsync.run (NotRun before)
    \* ---- Spec: successive runs of main() against the server
    now,               \* the clock: a tick is a day, and what happens within one
                       \* tick happens within one second of it
    retention_days,    \* config['schedule'].get('retention_days', False)
    dest_exists,       \* dest_exists[j]: job j's dest_dir is a directory on the server
    snapshots,         \* snapshots[j]: the dated directories under dest_dir, by id
    latest,            \* latest[j]: the id dest_dir/latest points at, NoLatest if none
    pc,                \* the command the running invocation issues next, or "idle"
    job,               \* the index of the job the loop is at
    datetime,          \* backup()'s datetime, the id of the snapshot being made
    run_backup_type,   \* backup_type of the run
    expired_backups,   \* purge()'s list of expired directories
    expired_i,         \* how many of them purge() has dealt with
    lock_present,      \* the lockfile exists
    exit_status,       \* the exit status of the last process that ended
    runs,              \* invocations started so far
    \* history, for the statements below
    cmds,              \* the commands this run has issued, with their results
    latest_at_start,   \* latest when this run started
    linked_stamped,    \* linked_stamped[j]: when latest was last set, the transfer
                       \* into that snapshot had exited 0 and its touch had succeeded
    latest_failed      \* latest_failed[j]: since latest was last set, a transfer into
                       \* the snapshot it points at has exited non-zero

lockVars == <<lk_pc, lockfile, inodes, lockfile_handle, lockedBy, registered,
              issued, removed, announced, lk_exit>>

schedVars == <<config, force_full_backup, today, backup_type, consulted, caller>>

optVars == <<rsync_section, backup_job, job_backup_type, rsync_options>>

runVars == <<now, retention_days, dest_exists, snapshots, latest, pc, job, datetime,
             run_backup_type, expired_backups, expired_i, lock_present, exit_status,
             runs, cmds, latest_at_start, linked_stamped, latest_failed>>

vars == <<lockVars, schedVars, optVars, runVars>>

\* What the actions of one specification leave alone: the other
\* specifications' variables.
notLock == <<schedVars, optVars, runVars>>
notSched == <<lockVars, optVars, runVars>>
notOpt == <<lockVars, schedVars, runVars>>
notRun == <<lockVars, schedVars, optVars>>

(***************************************************************************)
(*                    SpecSchedule: the backup type decision               *)
(***************************************************************************)
MaxDay == 33        \* dates 2019-01-01 .. 2019-01-01 + MaxDay days
MaxWeekDays == 1    \* entries in full_backup_week_days
MaxMonthDays == 1   \* entries in full_backup_month_days

\* The subsets of S with at most k elements.
RECURSIVE SubsetsUpTo(_, _)
SubsetsUpTo(S, k) ==
    IF k = 0 THEN {{}}
    ELSE LET smaller == SubsetsUpTo(S, k - 1)
         IN  smaller \cup {T \cup {x} : T \in smaller, x \in S}

\* dict.get(key, default)
Get(dict, key, default) == IF key \in DOMAIN dict THEN dict[key] ELSE default

\* A 'schedule' section: each key is there or not. A list of days is kept as
\* the set of its entries, which is all 'in' reads of it.
ScheduleSection(has_w, w, has_m, m) ==
    [k \in {kk \in {"full_backup_week_days", "full_backup_month_days"} :
               \/ kk = "full_backup_week_days" /\ has_w
               \/ kk = "full_backup_month_days" /\ has_m}
        |-> IF k = "full_backup_week_days" THEN w ELSE m]

ScheduleSections ==
    {ScheduleSection(has_w, w, has_m, m) :
        has_w \in BOOLEAN, w \in SubsetsUpTo(0..6, MaxWeekDays),
        has_m \in BOOLEAN, m \in SubsetsUpTo(1..31, MaxMonthDays)}

\* A configuration, as far as the decision reads it: with or without a
\* 'schedule' section.
Configs ==
    {[k \in {} |-> {}]} \cup {[k \in {"schedule"} |-> s] : s \in ScheduleSections}

\* The calendar of 2019, whose first day is a Tuesday (the tests' frozen date).
MonthLengths == <<31, 28, 31, 30, 31, 30, 31, 31, 30, 31, 30, 31>>
FirstWeekday == 2

RECURSIVE DayOfMonthFrom(_, _)
DayOfMonthFrom(n, month) ==
    IF month > Len(MonthLengths) THEN DayOfMonthFrom(n, 1)
    ELSE IF n < MonthLengths[month] THEN n + 1
    ELSE DayOfMonthFrom(n - MonthLengths[month], month + 1)

Digits == <<"0", "1", "2", "3", "4", "5", "6", "7", "8", "9">>

\* time.strftime('%w'): the weekday as a decimal number, Sunday is "0".
strftime_w(n) == <<Digits[((FirstWeekday + n) % 7) + 1]>>

\* time.strftime('%d'): the day of the month, two digits, zero-padded.
strftime_d(n) ==
    LET d == DayOfMonthFrom(n, 1) IN <<Digits[(d \div 10) + 1], Digits[(d % 10) + 1]>>

DigitValue(c) == CHOOSE v \in 0..9 : Digits[v + 1] = c

\* int(s) of a string of decimal digits (leading zeros allowed).
RECURSIVE int(_)
int(s) == IF s = <<>> THEN 0
          ELSE 10 * int(SubSeq(s, 1, Len(s) - 1)) + DigitValue(s[Len(s)])

\* A plausible slip: 'and' for 'or'.
get_backup_type_and(cfg, n) ==
    IF "schedule" \notin DOMAIN cfg THEN "KeyError"
    ELSE IF /\ int(strftime_w(n)) \in Get(cfg["schedule"], "full_backup_week_days", {})
            /\ int(strftime_d(n)) \in Get(cfg["schedule"], "full_backup_month_days", {})
         THEN "full"
         ELSE "incremental"

\* get_backup_type, lines 67-77. config['schedule'] raises KeyError when the
\* section is missing.
get_backup_type(cfg, n) ==
    IF "schedule" \notin DOMAIN cfg THEN "KeyError"
    ELSE IF \/ int(strftime_w(n)) \in Get(cfg["schedule"], "full_backup_week_days", {})
            \/ int(strftime_d(n)) \in Get(cfg["schedule"], "full_backup_month_days", {})
         THEN "full"
         ELSE "incremental"

\* validate_config, lines 226-261, as far as the decision depends on it: the
\* schema requires the 'schedule' section.
validate_config(cfg) == "schedule" \in DOMAIN cfg

SchedInit ==
    /\ config \in Configs
    /\ force_full_backup \in BOOLEAN
    /\ today \in 0..MaxDay
    /\ backup_type = "none"
    /\ consulted = FALSE
    /\ caller = "none"

SchedIdle ==
    /\ config = [k \in {} |-> {}]
    /\ force_full_backup = FALSE
    /\ today = 0
    /\ backup_type = "none"
    /\ consulted = FALSE
    /\ caller = "none"

\* main, lines 24-37: the configuration is validated (sys.exit when it does
\* not validate), then the type is 'full' when forced and get_backup_type's
\* answer otherwise.
main_backup_type ==
    /\ backup_type = "none"
    /\ IF ~validate_config(config)
          THEN /\ backup_type' = "SystemExit"
               /\ UNCHANGED consulted
          ELSE IF force_full_backup
                  THEN /\ backup_type' = "full"
                       /\ UNCHANGED consulted
                  ELSE /\ backup_type' = get_backup_type(config, today)
                       /\ consulted' = TRUE
    /\ caller' = "main"
    /\ UNCHANGED <<config, force_full_backup, today, notSched>>

\* get_backup_type called on its own, as the tests call it.
call_get_backup_type ==
    /\ backup_type = "none"
    /\ backup_type' = get_backup_type(config, today)
    /\ consulted' = TRUE
    /\ caller' = "test"
    /\ UNCHANGED <<config, force_full_backup, today, notSched>>

SchedNext == main_backup_type \/ call_get_backup_type

\* What the claims say of the date, written without the string conversions.
Weekday(n) == (FirstWeekday + n) % 7
WeekDaySet == IF "schedule" \in DOMAIN config
                 THEN Get(config["schedule"], "full_backup_week_days", {}) ELSE {}
MonthDaySet == IF "schedule" \in DOMAIN config
                  THEN Get(config["schedule"], "full_backup_month_days", {}) ELSE {}

\* C6: the type main chooses is Full exactly when the override is set, or the
\* weekday is in the weekday set, or the day of the month is in the month-day
\* set, and Incremental otherwise; with the override set the schedule is not
\* read.
C6_BackupTypeDecision ==
    (caller = "main" /\ backup_type # "SystemExit") =>
        /\ backup_type =
              IF \/ force_full_backup
                 \/ Weekday(today) \in WeekDaySet
                 \/ DayOfMonthFrom(today, 1) \in MonthDaySet
              THEN "full" ELSE "incremental"
        /\ force_full_backup => ~consulted

\* C6 witness: main chose Full from the month-day set alone, with a weekday
\* set that does not hold today and no override.
C6_Witness ==
    /\ caller = "main"
    /\ ~force_full_backup
    /\ backup_type = "full"
    /\ WeekDaySet # {}
    /\ Weekday(today) \notin WeekDaySet
    /\ DayOfMonthFrom(today, 1) \in MonthDaySet
    /\ DayOfMonthFrom(today, 1) > 9

\* C7: with no schedule section at all, the decision gives Incremental.
C7_NoScheduleIsIncremental ==
    ("schedule" \notin DOMAIN config /\ caller = "test") =>
        backup_type = "incremental"

(***************************************************************************)
(*                SpecOptions: the option list of backup()                 *)
(***************************************************************************)
MaxPassthrough == 2   \* entries in additional_rsync_opts
MaxExclude == 2       \* entries in a job's exclude list

\* The sequences over S of length at most n.
SeqsUpTo(S, n) == UNION {[1..k -> S] : k \in 0..n}

\* A section in which each key of the given values is set or not.
Section(has_a, key_a, a, has_b, key_b, b) ==
    [k \in {kk \in {key_a, key_b} : \/ kk = key_a /\ has_a
                                    \/ kk = key_b /\ has_b}
        |-> IF k = key_a THEN a ELSE b]

RsyncSections ==
    {Section(has_bw, "bwlimit", bw, has_opts, "additional_rsync_opts", opts) :
        has_bw \in BOOLEAN, bw \in {"", "1.5m"},
        has_opts \in BOOLEAN, opts \in SeqsUpTo({"--acls", "--xattrs"}, MaxPassthrough)}

BackupJobs ==
    {Section(has_c, "compress", c, has_e, "exclude", e) :
        has_c \in BOOLEAN, c \in BOOLEAN,
        has_e \in BOOLEAN, e \in SeqsUpTo({"*.tmp", "cache"}, MaxExclude)}

NotRun == <<"not run">>

\* dict.get(key, False) and dict.get(key): the value in a one-element
\* sequence, and << >> for the default (False, None).
GetOpt(dict, key) == IF key \in DOMAIN dict THEN <<dict[key]>> ELSE <<>>

\* Python truth of such an optional: the default, '' and [] are false.
TruthyStr(opt) == opt # <<>> /\ opt[1] # ""
TruthyList(opt) == opt # <<>> /\ opt[1] # <<>>
TruthyBool(opt) == opt # <<>> /\ opt[1]

\* os.path.join of two relative parts.
os_path_join(a, b) == a \o "/" \o b

\* for x in list: rsync_options.append(prefix + x)
RECURSIVE AppendEach(_, _, _)
AppendEach(options, prefix, list) ==
    IF list = <<>> THEN options
    ELSE AppendEach(Append(options, prefix \o Head(list)), prefix, Tail(list))

\* A plausible slip: '-z' appended before '--checksum'.
backup_rsync_options_swapped(bwlimit, additional_rsync_opts, jobcfg, type) ==
    LET o1 == <<"-a", "--delete", "--link-dest=" \o os_path_join("..", "latest")>>
        o2 == IF TruthyStr(bwlimit) THEN Append(o1, "--bwlimit=" \o bwlimit[1]) ELSE o1
        o3 == IF TruthyList(additional_rsync_opts)
                 THEN AppendEach(o2, "", additional_rsync_opts[1]) ELSE o2
        o4 == IF TruthyBool(GetOpt(jobcfg, "compress")) THEN Append(o3, "-z") ELSE o3
        o5 == IF type = "full" THEN Append(o4, "--checksum") ELSE o4
    IN  IF TruthyList(GetOpt(jobcfg, "exclude"))
           THEN AppendEach(o5, "--exclude=", jobcfg["exclude"]) ELSE o5

\* backup, lines 95-109: the option list, built by appending in this order.
backup_rsync_options(bwlimit, additional_rsync_opts, jobcfg, type) ==
    LET o1 == <<"-a", "--delete", "--link-dest=" \o os_path_join("..", "latest")>>
        o2 == IF TruthyStr(bwlimit) THEN Append(o1, "--bwlimit=" \o bwlimit[1]) ELSE o1
        o3 == IF TruthyList(additional_rsync_opts)
                 THEN AppendEach(o2, "", additional_rsync_opts[1]) ELSE o2
        o4 == IF type = "full" THEN Append(o3, "--checksum") ELSE o3
        o5 == IF TruthyBool(GetOpt(jobcfg, "compress")) THEN Append(o4, "-z") ELSE o4
    IN  IF TruthyList(GetOpt(jobcfg, "exclude"))
           THEN AppendEach(o5, "--exclude=", jobcfg["exclude"]) ELSE o5

OptInit ==
    /\ rsync_section \in RsyncSections
    /\ backup_job \in BackupJobs
    /\ job_backup_type \in {"full", "incremental"}
    /\ rsync_options = NotRun

OptIdle ==
    /\ rsync_section = [k \in {} |-> ""]
    /\ backup_job = [k \in {} |-> FALSE]
    /\ job_backup_type = "incremental"
    /\ rsync_options = NotRun

\* main, lines 54-58, calling backup with config['rsync'].get(..., False),
\* and backup, lines 95-117, up to the list it hands to sysrsync.run.
backup_options ==
    /\ rsync_options = NotRun
    /\ rsync_options' = backup_rsync_options(GetOpt(rsync_section, "bwlimit"),
                                             GetOpt(rsync_section, "additional_rsync_opts"),
                                             backup_job, job_backup_type)
    /\ UNCHANGED <<rsync_section, backup_job, job_backup_type, notOpt>>

OptNext == backup_options

\* What the configuration asks for, in the claim's words. A bandwidth limit
\* is configured when the key is set to a non-empty string.
BwlimitConfigured == "bwlimit" \in DOMAIN rsync_section /\ rsync_section["bwlimit"] # ""
Passthrough == IF "additional_rsync_opts" \in DOMAIN rsync_section
                  THEN rsync_section["additional_rsync_opts"] ELSE <<>>
CompressRequested == "compress" \in DOMAIN backup_job /\ backup_job["compress"]
Exclusions == IF "exclude" \in DOMAIN backup_job THEN backup_job["exclude"] ELSE <<>>

\* C8: the option list is exactly the base triple, then --bwlimit=<v> iff a
\* limit is configured, then the passthrough options in order, then
\* --checksum iff Full, then -z iff compression is requested, then one
\* --exclude=<pattern> per exclusion in order.
C8_OptionList ==
    rsync_options # NotRun =>
        rsync_options =
            <<"-a", "--delete", "--link-dest=../latest">>
            \o (IF BwlimitConfigured
                   THEN <<"--bwlimit=" \o rsync_section["bwlimit"]>> ELSE <<>>)
            \o Passthrough
            \o (IF job_backup_type = "full" THEN <<"--checksum">> ELSE <<>>)
            \o (IF CompressRequested THEN <<"-z">> ELSE <<>>)
            \o [i \in 1..Len(Exclusions) |-> "--exclude=" \o Exclusions[i]]

\* C8 witness: a Full backup with every optional part set, two different
\* passthrough options and two different exclusions.
C8_Witness ==
    /\ rsync_options # NotRun
    /\ BwlimitConfigured
    /\ Len(Passthrough) = 2 /\ Passthrough[1] # Passthrough[2]
    /\ job_backup_type = "full"
    /\ CompressRequested
    /\ Len(Exclusions) = 2 /\ Exclusions[1] # Exclusions[2]
    /\ Len(rsync_options) = 10

(***************************************************************************)
(*                      SpecLock: the single-instance guard                *)
(***************************************************************************)
NumProcs == 3      \* invocations of main() against the same lockfile path
MaxCalls == 1      \* backup/purge calls one invocation makes at most

Procs == 1..NumProcs
NoInode == 0
NoProc == 0
NoStatus == 2

\* The configurations of the invocations: one without the 'schedule' section,
\* which does not validate, and one that validates.
LockConfigs == {[k \in {} |-> {}],
                [k \in {"schedule"} |-> ScheduleSection(FALSE, {}, FALSE, {})]}

\* validate_config, lines 257-261: the SchemaError's code, its message, names
\* the missing key.
SchemaErrorCode(cfg) == "Missing key: 'schedule'"

\* sys.exit(code) with a string: the string is written to stderr and the exit
\* status is 1.
sys_exit(code) == [status |-> 1, stderr |-> code]

\* An exception nothing catches: the traceback is written to stderr and the
\* exit status is 1.
Uncaught(exception) == [status |-> 1, stderr |-> "Traceback: " \o exception]

NoExit == [status |-> NoStatus, stderr |-> ""]

LockInit ==
    /\ lk_pc = [p \in Procs |-> "start"]
    /\ lockfile = NoInode
    /\ inodes = 0
    /\ lockfile_handle = [p \in Procs |-> NoInode]
    /\ lockedBy = [i \in 1..NumProcs |-> NoProc]
    /\ registered = [p \in Procs |-> FALSE]
    /\ issued = [p \in Procs |-> 0]
    /\ removed = [p \in Procs |-> FALSE]
    /\ announced = [p \in Procs |-> FALSE]
    /\ lk_exit = [p \in Procs |-> NoExit]

\* A plausible slip: the lockfile is opened before the configuration is
\* validated.
main_validate_config_late(p) ==
    /\ lk_pc[p] = "start"
    /\ \E cfg \in LockConfigs :
          IF validate_config(cfg)
             THEN /\ lk_pc' = [lk_pc EXCEPT ![p] = "validated"]
                  /\ UNCHANGED <<lk_exit, inodes, lockfile, lockfile_handle>>
             ELSE /\ IF lockfile = NoInode
                        THEN /\ inodes' = inodes + 1
                             /\ lockfile' = inodes + 1
                        ELSE UNCHANGED <<inodes, lockfile>>
                  /\ lockfile_handle' = [lockfile_handle EXCEPT ![p] = lockfile']
                  /\ lk_pc' = [lk_pc EXCEPT ![p] = "invalid"]
                  /\ lk_exit' = [lk_exit EXCEPT ![p] = sys_exit(SchemaErrorCode(cfg))]
    /\ UNCHANGED <<lockedBy, registered, issued, removed, announced, notLock>>

\* main, lines 24-28, and validate_config, lines 226-261: the configuration
\* is loaded and validated; when it does not validate, sys.exit(exception.code).
main_validate_config(p) ==
    /\ lk_pc[p] = "start"
    /\ \E cfg \in LockConfigs :
          IF validate_config(cfg)
             THEN /\ lk_pc' = [lk_pc EXCEPT ![p] = "validated"]
                  /\ UNCHANGED lk_exit
             ELSE /\ lk_pc' = [lk_pc EXCEPT ![p] = "invalid"]
                  /\ lk_exit' = [lk_exit EXCEPT ![p] = sys_exit(SchemaErrorCode(cfg))]
    /\ UNCHANGED <<lockfile, inodes, lockfile_handle, lockedBy, registered, issued,
                   removed, announced, notLock>>

\* main, lines 30-37: the backup type is decided, forced or from the
\* schedule, and printed.
main_get_backup_type(p) ==
    /\ lk_pc[p] = "validated"
    /\ announced' = [announced EXCEPT ![p] = TRUE]
    /\ lk_pc' = [lk_pc EXCEPT ![p] = "decided"]
    /\ UNCHANGED <<lockfile, inodes, lockfile_handle, lockedBy, registered, issued,
                   removed, lk_exit, notLock>>

\* main, line 42: open(lockfile, 'w') opens the file the path names, creating
\* it (a new inode) when the path names nothing.
open_lockfile(p) ==
    /\ lk_pc[p] = "decided"
    /\ IF lockfile = NoInode
          THEN /\ inodes' = inodes + 1
               /\ lockfile' = inodes + 1
          ELSE UNCHANGED <<inodes, lockfile>>
    /\ lockfile_handle' = [lockfile_handle EXCEPT ![p] = lockfile']
    /\ lk_pc' = [lk_pc EXCEPT ![p] = "opened"]
    /\ UNCHANGED <<lockedBy, registered, issued, removed, announced, lk_exit, notLock>>

\* A plausible slip: the cleanup is registered before the lock is attempted,
\* so an invocation that fails to lock still removes the lockfile at exit.
lockf_register_first(p) ==
    /\ lk_pc[p] = "opened"
    /\ registered' = [registered EXCEPT ![p] = TRUE]
    /\ IF lockedBy[lockfile_handle[p]] \in {NoProc, p}
          THEN /\ lockedBy' = [lockedBy EXCEPT ![lockfile_handle[p]] = p]
               /\ lk_pc' = [lk_pc EXCEPT ![p] = "running"]
               /\ UNCHANGED lk_exit
          ELSE /\ lk_pc' = [lk_pc EXCEPT ![p] = "aborted"]
               /\ lk_exit' = [lk_exit EXCEPT ![p] = Uncaught("OSError")]
               /\ UNCHANGED lockedBy
    /\ UNCHANGED <<lockfile, inodes, lockfile_handle, issued, removed, announced, notLock>>

\* main, lines 43-50: fcntl.lockf(LOCK_EX | LOCK_NB) on the opened file. The
\* lock is on the inode. When another process holds it, OSError is re-raised
\* and main is left before atexit.register; otherwise remove_lockfile is
\* registered and the job loop begins.
lockf(p) ==
    /\ lk_pc[p] = "opened"
    /\ IF lockedBy[lockfile_handle[p]] \in {NoProc, p}
          THEN /\ lockedBy' = [lockedBy EXCEPT ![lockfile_handle[p]] = p]
               /\ registered' = [registered EXCEPT ![p] = TRUE]
               /\ lk_pc' = [lk_pc EXCEPT ![p] = "running"]
               /\ UNCHANGED lk_exit
          ELSE /\ lk_pc' = [lk_pc EXCEPT ![p] = "aborted"]
               /\ lk_exit' = [lk_exit EXCEPT ![p] = Uncaught("OSError")]
               /\ UNCHANGED <<lockedBy, registered>>
    /\ UNCHANGED <<lockfile, inodes, lockfile_handle, issued, removed, announced, notLock>>

\* main, lines 52-65: one call of backup() or purge() in the job loop.
job_call(p) ==
    /\ lk_pc[p] = "running"
    /\ issued[p] < MaxCalls
    /\ issued' = [issued EXCEPT ![p] = @ + 1]
    /\ UNCHANGED <<lk_pc, lockfile, inodes, lockfile_handle, lockedBy,
                   registered, removed, announced, lk_exit, notLock>>

\* main, lines 52-65: the loop ends, or a call raises; either way main is
\* left and the interpreter begins to exit.
leave_main(p) ==
    /\ lk_pc[p] = "running"
    /\ lk_pc' = [lk_pc EXCEPT ![p] = "exiting"]
    /\ UNCHANGED <<lockfile, inodes, lockfile_handle, lockedBy, registered,
                   issued, removed, announced, lk_exit, notLock>>

\* The interpreter exits, after the loop or after an exception, and runs what
\* atexit holds. remove_lockfile, lines 263-266, when registered:
\* os.remove(lockfile) unlinks whatever the path names now (FileNotFoundError
\* when it names nothing). The process still holds its lock.
remove_lockfile(p) ==
    /\ lk_pc[p] \in {"exiting", "aborted", "invalid"}
    /\ IF registered[p] /\ lockfile # NoInode
          THEN /\ lockfile' = NoInode
               /\ removed' = [removed EXCEPT ![p] = TRUE]
          ELSE UNCHANGED <<lockfile, removed>>
    /\ lk_pc' = [lk_pc EXCEPT ![p] = IF @ = "aborted" THEN "aborted_atexit_done"
                                     ELSE IF @ = "invalid" THEN "invalid_atexit_done"
                                     ELSE "atexit_done"]
    /\ UNCHANGED <<inodes, lockfile_handle, lockedBy, registered, issued, announced,
                   lk_exit, notLock>>

\* The process is gone: the operating system closes its files, which drops
\* every lock it held (fcntl.lockf locks belong to the process).
process_exit(p) ==
    /\ lk_pc[p] \in {"atexit_done", "aborted_atexit_done", "invalid_atexit_done"}
    /\ lockedBy' = [i \in DOMAIN lockedBy |->
                       IF lockedBy[i] = p THEN NoProc ELSE lockedBy[i]]
    /\ lk_pc' = [lk_pc EXCEPT ![p] = IF @ = "atexit_done" THEN "gone"
                                     ELSE IF @ = "invalid_atexit_done" THEN "gone_invalid"
                                     ELSE "gone_aborted"]
    /\ UNCHANGED <<lockfile, inodes, lockfile_handle, registered, issued, removed,
                   announced, lk_exit, notLock>>

LockNext ==
    \E p \in Procs :
        \/ main_validate_config(p)
        \/ main_get_backup_type(p)
        \/ open_lockfile(p)
        \/ lockf(p)
        \/ job_call(p)
        \/ leave_main(p)
        \/ remove_lockfile(p)
        \/ process_exit(p)

\* C2: at most one invocation is in its job-execution phase at any time.
C2_AtMostOneRunning ==
    Cardinality({p \in Procs : lk_pc[p] = "running"}) <= 1

LockFailed(p) == lk_pc[p] \in {"aborted", "aborted_atexit_done", "gone_aborted"}

\* C3: an invocation whose lockf failed made no backup or purge call, did not
\* register the cleanup and did not remove the lockfile.
C3_FailedLockAbortsCleanly ==
    \A p \in Procs :
        LockFailed(p) => /\ issued[p] = 0
                         /\ ~registered[p]
                         /\ ~removed[p]

\* C3 witness: one invocation has failed to lock and is gone while the holder,
\* having made calls already, is still running with the lockfile in place.
C3_Witness ==
    \E p, q \in Procs :
        /\ lk_pc[p] = "gone_aborted"
        /\ lk_pc[q] = "running"
        /\ issued[q] > 0
        /\ lockfile = lockfile_handle[q]
        /\ lockedBy[lockfile] = q

\* The invocation got the lock, its run has ended and the process is gone.
HolderGone(p) == lk_pc[p] = "gone"

\* C13: an invocation that acquired the lock has removed the lock file at the
\* lock path by the time its process is gone, however its run ended.
C13_HolderRemovesLockfile ==
    \A p \in Procs : HolderGone(p) => removed[p]

\* The invocation's configuration did not validate.
ConfigInvalid(p) == lk_pc[p] \in {"invalid", "invalid_atexit_done", "gone_invalid"}

\* C15: an invocation whose configuration does not validate ends with a
\* non-zero exit status and the missing-key message, without having opened
\* or locked the lockfile, registered or run the cleanup, decided a backup
\* type or made any backup or purge call.
C15_InvalidConfigExitsFirst ==
    \A p \in Procs :
        ConfigInvalid(p) =>
            /\ lk_exit[p].status # 0
            /\ lk_exit[p].stderr = "Missing key: 'schedule'"
            /\ lockfile_handle[p] = NoInode
            /\ \A i \in DOMAIN lockedBy : lockedBy[i] # p
            /\ ~registered[p] /\ ~removed[p]
            /\ ~announced[p]
            /\ issued[p] = 0

\* C15 witness: an invocation with an invalid configuration is gone while
\* another, with a valid one, holds the lock and has made a call.
C15_Witness ==
    \E p, q \in Procs :
        /\ lk_pc[p] = "gone_invalid"
        /\ lk_exit[p] = sys_exit("Missing key: 'schedule'")
        /\ lk_pc[q] = "running"
        /\ issued[q] > 0
        /\ lockfile = lockfile_handle[q]

\* C19: an invocation that failed to obtain the lock has not decided or
\* announced a backup type.
C19_LockBeforeBackupType ==
    \A p \in Procs : LockFailed(p) => ~announced[p]

(***************************************************************************)
(*            Spec: successive runs of main() against the server           *)
(***************************************************************************)
\* config['backup_jobs'], in the order of the file: two jobs, each with its
\* own dest_dir.
backup_jobs == <<[name |-> "job01", dest_dir |-> "dest01"],
                 [name |-> "job02", dest_dir |-> "dest02"]>>
NumJobs == Len(backup_jobs)

MaxClock == 3       \* the clock runs from tick 1 to MaxClock
MaxRetention == 1   \* retention_days is 0..MaxRetention, or not set
MaxRuns == 2        \* invocations of main(), one after the other

JobIds == 1..NumJobs
NoLatest == 0

\* Update and removal in a mapping kept as a function on the keys present.
Put(f, k, v) == [x \in DOMAIN f \cup {k} |-> IF x = k THEN v ELSE f[x]]
Del(f, k) == [x \in DOMAIN f \ {k} |-> f[x]]

\* config['backup_jobs'][j]['dest_dir']
dest_dir(j) == backup_jobs[j].dest_dir

\* time.strftime("%Y%m%dT%H%M%S") at tick t: the stamp has whole seconds,
\* so there is one stamp per tick.
strftime_datetime(t) == "20190101T00000" \o Digits[t + 1]

\* os.path.join(dest_dir, datetime): the path of job j's snapshot id.
SnapPath(j, id) == os_path_join(dest_dir(j), strftime_datetime(id))

\* The snapshot of job j a path names.
IdOfPath(j, path) == CHOOSE id \in DOMAIN snapshots[j] : SnapPath(j, id) = path

\* The source directories were last changed at the first tick.
source_mtime == 1

\* The day the clock shows, in days after 2019-01-01.
Today == now - 1

\* The schedule of the runs: full backups on Tuesdays.
RunConfig == [k \in {"schedule"} |-> ScheduleSection(TRUE, {FirstWeekday}, FALSE, {})]

\* A record of one command issued: op, the job it is for, the path or name it
\* acts on, the arguments that vary (rsync's option list, find's -mtime
\* argument), its exit status, whether it printed anything, and (for find)
\* the list get_expired_backups returned.
Cmd(op, j, target, args, rc, out, lines) ==
    [op |-> op, job |-> j, target |-> target, args |-> args, rc |-> rc, out |-> out,
     lines |-> lines]

\* config['rsync'] and the optional keys of a job in the runs: none is set.
RunRsyncSection == [k \in {} |-> ""]
RunBackupJob == [k \in {} |-> FALSE]

\* main, lines 54-58 and backup, lines 95-117: the option list of a job's
\* transfer for a backup type.
RsyncOptions(type) ==
    backup_rsync_options(GetOpt(RunRsyncSection, "bwlimit"),
                         GetOpt(RunRsyncSection, "additional_rsync_opts"),
                         RunBackupJob, type)

\* The option list of the transfers of this run.
RsyncArgs == RsyncOptions(run_backup_type)

\* purge, lines 158-161: the options of the mirror-empty transfer.
PurgeArgs == <<"-r", "--delete">>

\* get_expired_backups, line 182: '-mtime', f'+{retention_days}'.
FindArgs == <<"-mtime", "+" \o Digits[retention_days[1] + 1]>>

\* The server before the first run of the model: the first job's dest_dir
\* holds one snapshot directory, left by a run that failed before the clock
\* of the model started, and the dest_dir of the other jobs is not there yet.
OldSnapshot == 0
Leftover == Put([id \in {} |-> {}], OldSnapshot, [state |-> "partial", mtime |-> 0])

RunInit ==
    /\ now = 1
    /\ retention_days \in {<<>>} \cup {<<n>> : n \in 0..MaxRetention}
    /\ dest_exists = [j \in JobIds |-> j = 1]
    /\ snapshots = [j \in JobIds |-> IF j = 1 THEN Leftover ELSE [id \in {} |-> {}]]
    /\ latest = [j \in JobIds |-> NoLatest]
    /\ pc = "idle"
    /\ job = 1
    /\ datetime = 1
    /\ run_backup_type = "incremental"
    /\ expired_backups = <<>>
    /\ expired_i = 0
    /\ lock_present = FALSE
    /\ exit_status = NoStatus
    /\ runs = 0
    /\ cmds = <<>>
    /\ latest_at_start = [j \in JobIds |-> NoLatest]
    /\ linked_stamped = [j \in JobIds |-> FALSE]
    /\ latest_failed = [j \in JobIds |-> FALSE]

RunIdle ==
    /\ RunInit
    /\ retention_days = <<>>

\* Time passes. The existence check, mkdir and the cleanup at exit do not
\* read the clock, so time that passes before one of them is let pass after
\* it.
tick ==
    /\ now < MaxClock
    /\ pc \notin {"check", "mkdir", "exiting"}
    /\ now' = now + 1
    /\ UNCHANGED <<retention_days, dest_exists, snapshots, latest, pc, job, datetime,
                   run_backup_type, expired_backups, expired_i, lock_present,
                   exit_status, cmds, latest_at_start, linked_stamped, latest_failed, runs, notRun>>

\* An exception leaves main: nothing in main catches it, so the loop is
\* abandoned and the interpreter exits with status 1.
Raise ==
    /\ pc' = "exiting"
    /\ exit_status' = 1
    /\ UNCHANGED <<job, datetime, expired_backups, expired_i>>

\* main, lines 52-54 and backup, line 84: the loop goes on to the next job,
\* whose backup() takes its datetime at once; after the last job main returns.
NextJob ==
    /\ IF job < NumJobs
          THEN /\ job' = job + 1
               /\ datetime' = now
               /\ pc' = "check"
               /\ UNCHANGED exit_status
          ELSE /\ pc' = "exiting"
               /\ exit_status' = 0
               /\ UNCHANGED <<job, datetime>>
    /\ expired_backups' = <<>>
    /\ expired_i' = 0

\* main, lines 24-54 and backup, line 84: a new invocation (without
\* --force-full-backup) validates its configuration, decides the backup
\* type, takes the lock, registers the cleanup and enters backup() for the
\* first job.
main_start ==
    /\ pc = "idle"
    /\ runs < MaxRuns
    /\ runs' = runs + 1
    /\ run_backup_type' = get_backup_type(RunConfig, Today)
    /\ exit_status' = NoStatus
    /\ lock_present' = TRUE
    /\ job' = 1
    /\ datetime' = now
    /\ pc' = "check"
    /\ expired_backups' = <<>>
    /\ expired_i' = 0
    /\ cmds' = <<>>
    /\ latest_at_start' = latest
    /\ UNCHANGED <<now, retention_days, dest_exists, snapshots, latest,
                   linked_stamped, latest_failed, notRun>>

\* What 'ssh server [[ -d dest_dir ]]' can give: 0 when the directory is
\* there (ssh may print a warning of its own on stderr all the same), 1 and
\* no output when it is not, and, when something goes wrong (ssh cannot
\* connect, the remote shell fails), a non-zero status with or without
\* output.
ExistsResults(exists) ==
    (IF exists THEN {[rc |-> 0, out |-> FALSE], [rc |-> 0, out |-> TRUE]}
               ELSE {[rc |-> 1, out |-> FALSE], [rc |-> 1, out |-> TRUE]})
    \cup {[rc |-> 255, out |-> TRUE], [rc |-> 255, out |-> FALSE]}

\* A plausible slip: only status 1 without output is taken for 'absent', any
\* other non-zero status raising.
remote_mkdir_check_status_one ==
    /\ pc = "check"
    /\ \E r \in ExistsResults(dest_exists[job]) :
          /\ cmds' = Append(cmds, Cmd("check", job, dest_dir(job), <<>>, r.rc, r.out, <<>>))
          /\ IF r.rc = 0
                THEN /\ pc' = "rsync"
                     /\ UNCHANGED <<job, datetime, expired_backups, expired_i, exit_status>>
                ELSE IF r.out \/ r.rc # 1
                        THEN Raise
                        ELSE /\ pc' = "mkdir"
                             /\ UNCHANGED <<job, datetime, expired_backups, expired_i,
                                            exit_status>>
    /\ UNCHANGED <<now, retention_days, dest_exists, snapshots, latest, run_backup_type,
                   lock_present, latest_at_start, linked_stamped, latest_failed, runs, notRun>>

\* remote_mkdir, lines 130-143: the existence check. Status 0: nothing more.
\* Non-zero with output: an exception. Non-zero without output: mkdir next.
remote_mkdir_check ==
    /\ pc = "check"
    /\ \E r \in ExistsResults(dest_exists[job]) :
          /\ cmds' = Append(cmds, Cmd("check", job, dest_dir(job), <<>>, r.rc, r.out, <<>>))
          /\ IF r.rc = 0
                THEN /\ pc' = "rsync"
                     /\ UNCHANGED <<job, datetime, expired_backups, expired_i, exit_status>>
                ELSE IF r.out
                        THEN Raise
                        ELSE /\ pc' = "mkdir"
                             /\ UNCHANGED <<job, datetime, expired_backups, expired_i,
                                            exit_status>>
    /\ UNCHANGED <<now, retention_days, dest_exists, snapshots, latest, run_backup_type,
                   lock_present, latest_at_start, linked_stamped, latest_failed, runs, notRun>>

\* remote_mkdir, lines 144-145: 'ssh server mkdir -p dest_dir', check=True.
remote_mkdir_mkdir ==
    /\ pc = "mkdir"
    /\ \E ok \in BOOLEAN :
          /\ cmds' = Append(cmds, Cmd("mkdir", job, dest_dir(job), <<>>,
                                      IF ok THEN 0 ELSE 255, FALSE, <<>>))
          /\ IF ok
                THEN /\ dest_exists' = [dest_exists EXCEPT ![job] = TRUE]
                     /\ pc' = "rsync"
                     /\ UNCHANGED <<job, datetime, expired_backups, expired_i, exit_status>>
                ELSE /\ Raise
                     /\ UNCHANGED dest_exists
    /\ UNCHANGED <<now, retention_days, snapshots, latest, run_backup_type,
                   lock_present, latest_at_start, linked_stamped, latest_failed, runs, notRun>>

\* What the transfer can leave of the snapshot directory when it exits
\* non-zero: nothing changed (rsync never got there), or a directory holding
\* part of the source.
FailedTransferSnapshots(j, id) ==
    {snapshots[j], Put(snapshots[j], id, [state |-> "partial", mtime |-> now])}

\* A plausible slip: the transfer's exit status is not looked at.
backup_rsync_unchecked ==
    /\ pc = "rsync"
    /\ \/ /\ dest_exists[job]
          /\ snapshots' = [snapshots EXCEPT ![job] =
                              Put(@, datetime, [state |-> "complete",
                                                mtime |-> source_mtime])]
          /\ cmds' = Append(cmds, Cmd("rsync", job, SnapPath(job, datetime), RsyncArgs, 0, FALSE, <<>>))
          /\ UNCHANGED latest_failed
       \/ /\ \E snaps \in FailedTransferSnapshots(job, datetime) :
                snapshots' = [snapshots EXCEPT ![job] = snaps]
          /\ cmds' = Append(cmds, Cmd("rsync", job, SnapPath(job, datetime), RsyncArgs, 23, TRUE, <<>>))
          /\ latest_failed' = [latest_failed EXCEPT ![job] = @ \/ latest[job] = datetime]
    /\ pc' = "touch"
    /\ UNCHANGED <<job, datetime, expired_backups, expired_i, exit_status>>
    /\ UNCHANGED <<now, retention_days, dest_exists, latest, run_backup_type,
                   lock_present, latest_at_start, linked_stamped, runs, notRun>>

\* A plausible slip: the backup type is decided anew for each job.
backup_rsync_own_type ==
    /\ pc = "rsync"
    /\ \/ /\ dest_exists[job]
          /\ snapshots' = [snapshots EXCEPT ![job] =
                              Put(@, datetime, [state |-> "complete",
                                                mtime |-> source_mtime])]
          /\ cmds' = Append(cmds, Cmd("rsync", job, SnapPath(job, datetime), RsyncOptions(get_backup_type(RunConfig, Today)), 0, FALSE, <<>>))
          /\ pc' = "touch"
          /\ UNCHANGED <<job, datetime, expired_backups, expired_i, exit_status,
                         latest_failed>>
       \/ /\ \E snaps \in FailedTransferSnapshots(job, datetime) :
                snapshots' = [snapshots EXCEPT ![job] = snaps]
          /\ cmds' = Append(cmds, Cmd("rsync", job, SnapPath(job, datetime), RsyncOptions(get_backup_type(RunConfig, Today)), 23, TRUE, <<>>))
          /\ latest_failed' = [latest_failed EXCEPT ![job] = @ \/ latest[job] = datetime]
          /\ Raise
    /\ UNCHANGED <<now, retention_days, dest_exists, latest, run_backup_type,
                   lock_present, latest_at_start, linked_stamped, runs, notRun>>

\* backup, lines 114-117: sysrsync.run copies source_dir to dest_dir/datetime.
\* Exit 0: the directory mirrors the source and, with -a, carries the source
\* directory's mtime. Non-zero: RsyncError is raised.
backup_rsync ==
    /\ pc = "rsync"
    /\ \/ /\ dest_exists[job]
          /\ snapshots' = [snapshots EXCEPT ![job] =
                              Put(@, datetime, [state |-> "complete",
                                                mtime |-> source_mtime])]
          /\ cmds' = Append(cmds, Cmd("rsync", job, SnapPath(job, datetime), RsyncArgs, 0, FALSE, <<>>))
          /\ pc' = "touch"
          /\ UNCHANGED <<job, datetime, expired_backups, expired_i, exit_status,
                         latest_failed>>
       \/ /\ \E snaps \in FailedTransferSnapshots(job, datetime) :
                snapshots' = [snapshots EXCEPT ![job] = snaps]
          /\ cmds' = Append(cmds, Cmd("rsync", job, SnapPath(job, datetime), RsyncArgs, 23, TRUE, <<>>))
          /\ latest_failed' = [latest_failed EXCEPT ![job] = @ \/ latest[job] = datetime]
          /\ Raise
    /\ UNCHANGED <<now, retention_days, dest_exists, latest, run_backup_type,
                   lock_present, latest_at_start, linked_stamped, runs, notRun>>

\* In the backup() call under way the transfer into dest_dir/datetime exited
\* 0 and the touch of it succeeded, as far as the commands issued show.
Stamped ==
    /\ Len(cmds) >= 2
    /\ LET r == cmds[Len(cmds) - 1]
           t == cmds[Len(cmds)]
       IN  /\ r.op = "rsync" /\ r.job = job /\ r.rc = 0
           /\ r.target = SnapPath(job, datetime)
           /\ t.op = "touch" /\ t.job = job /\ t.rc = 0
           /\ t.target = SnapPath(job, datetime)

\* A plausible slip: check=False, so a failed touch goes unnoticed.
backup_touch_unchecked ==
    /\ pc = "touch"
    /\ \E ok \in BOOLEAN :
          /\ cmds' = Append(cmds, Cmd("touch", job, SnapPath(job, datetime), <<>>,
                                      IF ok THEN 0 ELSE 255, ~ok, <<>>))
          /\ IF ok /\ datetime \in DOMAIN snapshots[job]
                THEN snapshots' = [snapshots EXCEPT ![job][datetime].mtime = now]
                ELSE UNCHANGED snapshots
          /\ pc' = "link"
          /\ UNCHANGED <<job, datetime, expired_backups, expired_i, exit_status>>
    /\ UNCHANGED <<now, retention_days, dest_exists, latest, run_backup_type,
                   lock_present, latest_at_start, linked_stamped, latest_failed, runs,
                   notRun>>

\* A plausible slip: a touch that fails is tried once more.
backup_touch_retry ==
    /\ pc = "touch"
    /\ \E ok \in BOOLEAN :
          /\ cmds' = Append(cmds, Cmd("touch", job, SnapPath(job, datetime), <<>>,
                                      IF ok THEN 0 ELSE 255, ~ok, <<>>))
          /\ IF ok /\ datetime \in DOMAIN snapshots[job]
                THEN /\ snapshots' = [snapshots EXCEPT ![job][datetime].mtime = now]
                     /\ pc' = "link"
                     /\ UNCHANGED <<job, datetime, expired_backups, expired_i, exit_status>>
                ELSE IF \E i \in DOMAIN cmds : cmds[i].op = "touch" /\ cmds[i].job = job
                        THEN /\ Raise
                             /\ UNCHANGED snapshots
                        ELSE UNCHANGED <<pc, job, datetime, expired_backups, expired_i,
                                         exit_status, snapshots>>
    /\ UNCHANGED <<now, retention_days, dest_exists, latest, run_backup_type,
                   lock_present, latest_at_start, linked_stamped, latest_failed, runs,
                   notRun>>

\* A plausible slip: the touch computes the snapshot's name anew.
backup_touch_new_datetime ==
    /\ pc = "touch"
    /\ \E ok \in BOOLEAN :
          /\ cmds' = Append(cmds, Cmd("touch", job, SnapPath(job, now), <<>>,
                                      IF ok THEN 0 ELSE 255, ~ok, <<>>))
          /\ IF ok /\ now \in DOMAIN snapshots[job]
                THEN /\ snapshots' = [snapshots EXCEPT ![job][now].mtime = now]
                     /\ pc' = "link"
                     /\ UNCHANGED <<job, datetime, expired_backups, expired_i, exit_status>>
                ELSE /\ Raise
                     /\ UNCHANGED snapshots
    /\ UNCHANGED <<now, retention_days, dest_exists, latest, run_backup_type,
                   lock_present, latest_at_start, linked_stamped, latest_failed, runs,
                   notRun>>

\* A plausible slip: a failed touch is cleaned up after, the snapshot
\* directory being removed before the exception goes on.
backup_touch_rollback ==
    /\ pc = "touch"
    /\ \E ok \in BOOLEAN :
          /\ IF ok /\ datetime \in DOMAIN snapshots[job]
                THEN /\ cmds' = Append(cmds, Cmd("touch", job, SnapPath(job, datetime),
                                                 <<>>, 0, FALSE, <<>>))
                     /\ snapshots' = [snapshots EXCEPT ![job][datetime].mtime = now]
                     /\ pc' = "link"
                     /\ UNCHANGED <<job, datetime, expired_backups, expired_i, exit_status>>
                ELSE /\ cmds' = cmds \o
                          <<Cmd("touch", job, SnapPath(job, datetime), <<>>, 255, TRUE, <<>>),
                            Cmd("purge_rsync", job, SnapPath(job, datetime), PurgeArgs,
                                0, FALSE, <<>>),
                            Cmd("rmdir", job, SnapPath(job, datetime), <<>>, 0, FALSE, <<>>)>>
                     /\ snapshots' = [snapshots EXCEPT ![job] = Del(@, datetime)]
                     /\ Raise
    /\ UNCHANGED <<now, retention_days, dest_exists, latest, run_backup_type,
                   lock_present, latest_at_start, linked_stamped, latest_failed, runs,
                   notRun>>

\* backup, lines 119-121: 'ssh server touch dest_dir/datetime', check=True,
\* sets the snapshot directory's mtime to the present.
backup_touch ==
    /\ pc = "touch"
    /\ \E ok \in BOOLEAN :
          /\ cmds' = Append(cmds, Cmd("touch", job, SnapPath(job, datetime), <<>>,
                                      IF ok THEN 0 ELSE 255, ~ok, <<>>))
          /\ IF ok /\ datetime \in DOMAIN snapshots[job]
                THEN /\ snapshots' = [snapshots EXCEPT ![job][datetime].mtime = now]
                     /\ pc' = "link"
                     /\ UNCHANGED <<job, datetime, expired_backups, expired_i, exit_status>>
                ELSE /\ Raise
                     /\ UNCHANGED snapshots
    /\ UNCHANGED <<now, retention_days, dest_exists, latest, run_backup_type,
                   lock_present, latest_at_start, linked_stamped, latest_failed, runs,
                   notRun>>

\* if config['schedule'].get('retention_days', False)
RetentionSet == retention_days # <<>> /\ retention_days[1] # 0

\* A plausible slip: purge() is called whenever retention_days is set, 0
\* included.
remote_link_any_retention ==
    /\ pc = "link"
    /\ \/ /\ cmds' = Append(cmds, Cmd("link", job, strftime_datetime(datetime), <<>>, 0, FALSE, <<>>))
          /\ latest' = [latest EXCEPT ![job] = datetime]
          /\ linked_stamped' = [linked_stamped EXCEPT ![job] = Stamped]
          /\ latest_failed' = [latest_failed EXCEPT ![job] = FALSE]
          /\ IF retention_days # <<>>
                THEN /\ pc' = "find"
                     /\ UNCHANGED <<job, datetime, expired_backups, expired_i, exit_status>>
                ELSE NextJob
       \/ /\ cmds' = Append(cmds, Cmd("link", job, strftime_datetime(datetime), <<>>, 255, TRUE, <<>>))
          /\ \/ UNCHANGED <<latest, linked_stamped, latest_failed>>
             \/ /\ latest' = [latest EXCEPT ![job] = datetime]
                /\ linked_stamped' = [linked_stamped EXCEPT ![job] = Stamped]
                /\ latest_failed' = [latest_failed EXCEPT ![job] = FALSE]
          /\ Raise
    /\ UNCHANGED <<now, retention_days, dest_exists, snapshots, run_backup_type,
                   lock_present, latest_at_start, runs, notRun>>

\* backup, line 123 and remote_link, lines 192-201, then main, line 59:
\* 'ssh server ln -sfn datetime dest_dir/latest', check=True. When ssh
\* reports a failure the link may or may not have been made. After a success
\* main goes on to purge() when retention_days is set and non-zero, and to
\* the next job otherwise.
remote_link ==
    /\ pc = "link"
    /\ \/ /\ cmds' = Append(cmds, Cmd("link", job, strftime_datetime(datetime), <<>>, 0, FALSE, <<>>))
          /\ latest' = [latest EXCEPT ![job] = datetime]
          /\ linked_stamped' = [linked_stamped EXCEPT ![job] = Stamped]
          /\ latest_failed' = [latest_failed EXCEPT ![job] = FALSE]
          /\ IF RetentionSet
                THEN /\ pc' = "find"
                     /\ UNCHANGED <<job, datetime, expired_backups, expired_i, exit_status>>
                ELSE NextJob
       \/ /\ cmds' = Append(cmds, Cmd("link", job, strftime_datetime(datetime), <<>>, 255, TRUE, <<>>))
          /\ \/ UNCHANGED <<latest, linked_stamped, latest_failed>>
             \/ /\ latest' = [latest EXCEPT ![job] = datetime]
                /\ linked_stamped' = [linked_stamped EXCEPT ![job] = Stamped]
                /\ latest_failed' = [latest_failed EXCEPT ![job] = FALSE]
          /\ Raise
    /\ UNCHANGED <<now, retention_days, dest_exists, snapshots, run_backup_type,
                   lock_present, latest_at_start, runs, notRun>>

\* The snapshot directories of job j that 'find -mtime +retention_days'
\* matches: those whose age in whole days is more than retention_days.
Expired(j) ==
    {id \in DOMAIN snapshots[j] :
        now - snapshots[j][id].mtime > retention_days[1]}

\* The orders in which a set can be listed.
Orders(S) ==
    {f \in [1..Cardinality(S) -> S] : \A a, b \in DOMAIN f : f[a] = f[b] => a = b}

\* find's output: one path and a newline for each match, in find's order.
FindStdout(j, order) ==
    [k \in 1..(2 * Len(order)) |->
        IF k % 2 = 1 THEN SnapPath(j, order[(k + 1) \div 2]) ELSE "\n"]

\* bytes.splitlines() followed by str(x, 'utf-8') on each line: the pieces
\* between newlines, with no empty piece after a final newline.
RECURSIVE SplitFrom(_, _, _)
SplitFrom(stdout, line, lines) ==
    IF stdout = <<>> THEN (IF line = "" THEN lines ELSE Append(lines, line))
    ELSE IF Head(stdout) = "\n" THEN SplitFrom(Tail(stdout), "", Append(lines, line))
    ELSE SplitFrom(Tail(stdout), line \o Head(stdout), lines)

splitlines(stdout) == SplitFrom(stdout, "", <<>>)

\* get_expired_backups, lines 185-190: False (kept as the empty list, which
\* purge treats alike) for an empty output, the list of lines otherwise.
expired_list(stdout) == IF stdout = <<>> THEN <<>> ELSE splitlines(stdout)

\* purge, lines 149-163, with get_expired_backups, lines 175-190: the find
\* command, check=True. With nothing expired purge returns and main goes on
\* to the next job; otherwise the loop over the expired directories begins.
get_expired_backups ==
    /\ pc = "find"
    /\ \/ /\ dest_exists[job]
          /\ \E order \in Orders(Expired(job)) :
                LET found == expired_list(FindStdout(job, order))
                IN  /\ cmds' = Append(cmds, Cmd("find", job, dest_dir(job), FindArgs, 0,
                                                found # <<>>, found))
                    /\ IF found = <<>>
                          THEN NextJob
                          ELSE /\ expired_backups' = found
                               /\ expired_i' = 0
                               /\ pc' = "purge_rsync"
                               /\ UNCHANGED <<job, datetime, exit_status>>
       \/ /\ cmds' = Append(cmds, Cmd("find", job, dest_dir(job), FindArgs, 255, TRUE, <<>>))
          /\ Raise
    /\ UNCHANGED <<now, retention_days, dest_exists, snapshots, latest, run_backup_type,
                   lock_present, latest_at_start, linked_stamped, latest_failed, runs, notRun>>

\* A plausible slip: the rmdir is left out of the loop.
purge_rsync_no_rmdir ==
    /\ pc = "purge_rsync"
    /\ LET target == expired_backups[expired_i + 1]
       IN  /\ cmds' = Append(cmds, Cmd("purge_rsync", job, target, PurgeArgs, 0, FALSE, <<>>))
           /\ snapshots' = [snapshots EXCEPT ![job][IdOfPath(job, target)] =
                               [state |-> "empty", mtime |-> now]]
           /\ IF expired_i + 1 < Len(expired_backups)
                 THEN /\ expired_i' = expired_i + 1
                      /\ UNCHANGED <<pc, job, datetime, expired_backups, exit_status>>
                 ELSE NextJob
    /\ UNCHANGED <<now, retention_days, dest_exists, latest, run_backup_type,
                   lock_present, latest_at_start, linked_stamped, latest_failed, runs, notRun>>

\* purge, lines 163-171: an empty temporary directory is mirrored onto the
\* expired directory with -r --delete, which empties it. RsyncError on a
\* non-zero exit.
purge_rsync ==
    /\ pc = "purge_rsync"
    /\ LET target == expired_backups[expired_i + 1]
       IN  \/ /\ cmds' = Append(cmds, Cmd("purge_rsync", job, target, PurgeArgs, 0, FALSE, <<>>))
              /\ snapshots' = [snapshots EXCEPT ![job][IdOfPath(job, target)] =
                                  [state |-> "empty", mtime |-> now]]
              /\ pc' = "rmdir"
              /\ UNCHANGED <<job, datetime, expired_backups, expired_i, exit_status>>
           \/ /\ cmds' = Append(cmds, Cmd("purge_rsync", job, target, PurgeArgs, 23, TRUE, <<>>))
              /\ UNCHANGED snapshots
              /\ Raise
    /\ UNCHANGED <<now, retention_days, dest_exists, latest, run_backup_type,
                   lock_present, latest_at_start, linked_stamped, latest_failed, runs, notRun>>

\* purge, lines 172-173, then the loop's next turn or main's next job:
\* 'ssh server rmdir expired_backup', check=True.
purge_rmdir ==
    /\ pc = "rmdir"
    /\ LET target == expired_backups[expired_i + 1]
       IN  \/ /\ cmds' = Append(cmds, Cmd("rmdir", job, target, <<>>, 0, FALSE, <<>>))
              /\ snapshots' = [snapshots EXCEPT ![job] = Del(@, IdOfPath(job, target))]
              /\ IF expired_i + 1 < Len(expired_backups)
                    THEN /\ expired_i' = expired_i + 1
                         /\ pc' = "purge_rsync"
                         /\ UNCHANGED <<job, datetime, expired_backups, exit_status>>
                    ELSE NextJob
           \/ /\ cmds' = Append(cmds, Cmd("rmdir", job, target, <<>>, 255, TRUE, <<>>))
              /\ UNCHANGED snapshots
              /\ Raise
    /\ UNCHANGED <<now, retention_days, dest_exists, latest, run_backup_type,
                   lock_present, latest_at_start, linked_stamped, latest_failed, runs, notRun>>

\* The interpreter exits: atexit runs remove_lockfile, lines 263-266, and the
\* process is gone, and with it everything it held in memory.
main_exit ==
    /\ pc = "exiting"
    /\ lock_present' = FALSE
    /\ pc' = "idle"
    /\ job' = 1
    /\ datetime' = 1
    /\ run_backup_type' = "incremental"
    /\ expired_backups' = <<>>
    /\ expired_i' = 0
    /\ cmds' = <<>>
    /\ latest_at_start' = [j \in JobIds |-> NoLatest]
    /\ UNCHANGED <<now, retention_days, dest_exists, snapshots, latest, exit_status,
                   linked_stamped, latest_failed, runs, notRun>>

RunNext ==
    \/ tick
    \/ main_start
    \/ remote_mkdir_check
    \/ remote_mkdir_mkdir
    \/ backup_rsync
    \/ backup_touch
    \/ remote_link
    \/ get_expired_backups
    \/ purge_rsync
    \/ purge_rmdir
    \/ main_exit

\* The commands of this run that are for job j and whose op is in ops.
CmdsOf(j, ops) == SelectSeq(cmds, LAMBDA c : c.job = j /\ c.op \in ops)

\* C1 as stated: latest points only at a snapshot whose transfer exited 0 and
\* whose touch succeeded, and never at one whose transfer failed.
C1_LatestNeverFailedSnapshot ==
    \A j \in JobIds :
        latest[j] # NoLatest => linked_stamped[j] /\ ~latest_failed[j]

\* C1 as amended: latest points only at a snapshot whose transfer had exited
\* 0 and whose touch had succeeded in the backup() call that set the link.
C1_LatestStampedWhenLinked ==
    \A j \in JobIds : latest[j] # NoLatest => linked_stamped[j]

\* C1 witness: a later run's transfer for the job has failed, into another
\* snapshot, and latest still points at the earlier, stamped one.
C1_Witness ==
    /\ pc = "exiting"
    /\ latest[job] # NoLatest
    /\ latest[job] # datetime
    /\ datetime \in DOMAIN snapshots[job]
    /\ snapshots[job][datetime].state = "partial"
    /\ cmds[Len(cmds)].op = "rsync"

\* C4: in a run that has ended, the backup of every configured job was
\* attempted.
C4_EveryJobAttempted ==
    pc = "exiting" => \A j \in JobIds : CmdsOf(j, {"check"}) # <<>>

\* The transfer of job j exited non-zero in this run.
TransferFailed(j) == \E i \in DOMAIN cmds : /\ cmds[i].op = "rsync"
                                            /\ cmds[i].job = j
                                            /\ cmds[i].rc # 0

\* C5: when a job's transfer exits non-zero, its latest is as it was when the
\* run started, and no touch, link, find, mirror-empty or rmdir is issued for
\* the job in the run.
C5_FailedTransferLeavesLatest ==
    \A j \in JobIds :
        TransferFailed(j) =>
            /\ latest[j] = latest_at_start[j]
            /\ CmdsOf(j, {"touch", "link", "find", "purge_rsync", "rmdir"}) = <<>>

\* C5 witness: the second job's transfer has failed in a run in which the
\* first job's latest was moved, and the second job had a latest before.
C5_Witness ==
    /\ pc = "exiting"
    /\ TransferFailed(NumJobs)
    /\ latest_at_start[NumJobs] # NoLatest
    /\ latest[1] # latest_at_start[1]

\* C9: after the existence check of a job, a clean negative (status 1, no
\* output) is followed by exactly one mkdir, a positive by none, and any
\* other result by no mkdir and no transfer, the run ending in an error.
C9_DestinationCheck ==
    \A i \in DOMAIN cmds :
        cmds[i].op = "check" =>
            LET c == cmds[i]
                mkdirs == Len(CmdsOf(c.job, {"mkdir"}))
            IN  IF c.rc = 0 THEN mkdirs = 0
                ELSE IF c.rc = 1 /\ ~c.out
                     THEN /\ mkdirs <= 1
                          /\ i < Len(cmds) => /\ cmds[i + 1].op = "mkdir"
                                              /\ cmds[i + 1].job = c.job
                     ELSE /\ mkdirs = 0
                          /\ CmdsOf(c.job, {"rsync"}) = <<>>
                          /\ pc = "exiting"
                          /\ exit_status = 1

\* What purge is to issue for the list of expired directories: for each, in
\* the list's order, the mirror-empty transfer and then the rmdir.
ExpectedPurge(list) ==
    [k \in 1..(2 * Len(list)) |->
        [op |-> IF k % 2 = 1 THEN "purge_rsync" ELSE "rmdir",
         target |-> list[(k + 1) \div 2]]]

\* What purge has issued for job j.
PurgeIssued(j) ==
    LET issuedcmds == CmdsOf(j, {"purge_rsync", "rmdir"})
    IN  [k \in DOMAIN issuedcmds |->
            [op |-> issuedcmds[k].op, target |-> issuedcmds[k].target]]

IsPrefix(a, b) == Len(a) <= Len(b) /\ a = SubSeq(b, 1, Len(a))

\* purge() for job j has returned without an exception.
PurgeReturned(j) == job > j \/ (job = j /\ pc = "exiting" /\ exit_status = 0)

\* C10: with nothing discovered purge issues no mirror-empty transfer and no
\* rmdir; with n >= 1 directories discovered and every command succeeding it
\* issues, for each in discovery order, one mirror-empty transfer and then
\* one rmdir of the same path, and nothing else.
C10_PurgeCommands ==
    \A j \in JobIds :
        LET finds == CmdsOf(j, {"find"})
            purged == PurgeIssued(j)
            topurge == ExpectedPurge(finds[1].lines)
        IN  IF finds = <<>> \/ finds[1].lines = <<>>
               THEN purged = <<>>
               ELSE (\A i \in DOMAIN cmds :
                        (cmds[i].job = j /\ cmds[i].op \in {"purge_rsync", "rmdir"})
                            => cmds[i].rc = 0)
                    => /\ IsPrefix(purged, topurge)
                       /\ PurgeReturned(j) => purged = topurge

\* C10 witness: purge has returned for the first job after emptying and
\* removing what find listed for it.
C10_Witness ==
    LET finds == CmdsOf(1, {"find"})
    IN  /\ finds # <<>>
        /\ finds[1].lines # <<>>
        /\ PurgeReturned(1)
        /\ Len(PurgeIssued(1)) = 2 * Len(finds[1].lines)

\* The purge pass of job j is over: main has gone on to a later job, or the
\* run is ending.
PurgeOver(j) == job > j \/ (job = j /\ pc = "exiting")

\* C11: when purge has discovered several expired snapshots, the mirror-empty
\* transfer is attempted for every one of them by the time the job's purge is
\* over, whatever failed for an earlier one.
C11_PurgeBatchContinues ==
    \A j \in JobIds :
        LET finds == CmdsOf(j, {"find"})
        IN  (finds # <<>> /\ PurgeOver(j)) =>
                \A k \in DOMAIN finds[1].lines :
                    \E i \in DOMAIN cmds : /\ cmds[i].op = "purge_rsync"
                                           /\ cmds[i].job = j
                                           /\ cmds[i].target = finds[1].lines[k]

\* A command of job j's purge pass failed in this run.
PurgeFailed(j) == \E i \in DOMAIN cmds : /\ cmds[i].op \in {"find", "purge_rsync", "rmdir"}
                                         /\ cmds[i].job = j
                                         /\ cmds[i].rc # 0

\* C12: in a run that has ended, a failure in one job's purge pass has not
\* kept the backup of any later job from being attempted.
C12_PurgeFailureSparesLaterJobs ==
    pc = "exiting" =>
        \A j \in JobIds :
            PurgeFailed(j) => \A later \in JobIds :
                                 later > j => CmdsOf(later, {"check"}) # <<>>

\* A command that failed: it exited non-zero, and it was not an existence
\* check answering 'no such directory' (status 1, nothing printed).
Failed(c) == c.rc # 0 /\ ~(c.op = "check" /\ c.rc = 1 /\ ~c.out)

\* C14: when the run ends, the exit status is non-zero if a command of the
\* run failed and zero if none did.
C14_ExitStatus ==
    pc = "exiting" =>
        (exit_status # 0 <=> \E i \in DOMAIN cmds : Failed(cmds[i]))

\* C16: within a run no command is issued twice: the existence check, mkdir,
\* transfer, touch, link and find at most once for each job, and the
\* mirror-empty transfer and the rmdir at most once for each directory.
C16_NothingRetried ==
    LET Issued(c) == IF c.op \in {"purge_rsync", "rmdir"}
                     THEN <<c.op, c.job, c.target>>
                     ELSE <<c.op, c.job>>
    IN  Cardinality({Issued(cmds[i]) : i \in DOMAIN cmds}) = Len(cmds)

\* C16 witness: the run has ended on a failed command, in the purge of a job
\* for which find had listed two directories.
C16_Witness ==
    /\ pc = "exiting"
    /\ exit_status = 1
    /\ cmds[Len(cmds)].op \in {"purge_rsync", "rmdir"}
    /\ cmds[Len(cmds)].rc # 0
    /\ Len(CmdsOf(job, {"find"})[1].lines) = 2

\* The commands of backup() for job j in this run.
BackupCmds(j) == CmdsOf(j, {"check", "mkdir", "rsync", "touch", "link"})

\* Command i of the run came right after a command of the same job with the
\* given op and exit status 0.
FollowsSuccess(i, op) ==
    /\ i > 1
    /\ cmds[i - 1].op = op
    /\ cmds[i - 1].job = cmds[i].job
    /\ cmds[i - 1].rc = 0

PurgeOps == {"find", "purge_rsync", "rmdir"}

\* C18: the commands of a run go through the jobs in the order of the
\* configuration, one job at a time: a job's commands begin with its backup,
\* its purge follows its backup and comes before the next job's backup, and
\* every transfer is made with the options of the one backup type of the run.
C18_JobsInOrder ==
    /\ cmds # <<>> => cmds[1].job = 1 /\ cmds[1].op = "check"
    /\ \A i \in DOMAIN cmds :
          /\ cmds[i].op = "rsync" => cmds[i].args = RsyncOptions(run_backup_type)
          /\ i < Len(cmds) =>
                IF cmds[i + 1].job = cmds[i].job
                   THEN cmds[i].op \in PurgeOps => cmds[i + 1].op \in PurgeOps
                   ELSE /\ cmds[i + 1].job = cmds[i].job + 1
                        /\ cmds[i + 1].op = "check"
                        /\ cmds[i].op \in (IF RetentionSet THEN PurgeOps ELSE {"link"})

\* C18 witness: a run with retention has gone through both jobs, purging for
\* the first before the second began, on a day on which the schedule would
\* by now give another backup type than the one the run began with.
C18_Witness ==
    /\ pc = "exiting"
    /\ exit_status = 0
    /\ RetentionSet
    /\ \A j \in JobIds : CmdsOf(j, {"rsync"}) # <<>> /\ CmdsOf(j, {"find"}) # <<>>
    /\ CmdsOf(1, {"rmdir"}) # <<>>
    /\ get_backup_type(RunConfig, Today) # run_backup_type

\* What C20 says of a run, for a reading of 'a retention policy is
\* configured': without one no find, mirror-empty transfer or rmdir is
\* issued; with one, a job's successful backup is followed at once by that
\* job's purge, whose find asks for the configured number of days.
PurgeFollowsBackup(configured) ==
    /\ ~configured => \A i \in DOMAIN cmds : cmds[i].op \notin PurgeOps
    /\ configured =>
          \A i \in DOMAIN cmds :
              (cmds[i].op = "link" /\ cmds[i].rc = 0) =>
                  IF i = Len(cmds)
                     THEN pc = "find" /\ job = cmds[i].job
                     ELSE /\ cmds[i + 1].op = "find"
                          /\ cmds[i + 1].job = cmds[i].job
                          /\ cmds[i + 1].target = dest_dir(cmds[i].job)
                          /\ cmds[i + 1].args =
                                <<"-mtime", "+" \o Digits[retention_days[1] + 1]>>

SnapshotOf(c) ==
    IF c.op = "link" THEN os_path_join(dest_dir(c.job), c.target) ELSE c.target

\* What C21 says of a run in which the transfer, the touch or the link of a
\* job failed: no mirror-empty transfer and no rmdir is issued for the
\* snapshot directory of that backup afterwards, a snapshot whose transfer had
\* succeeded is still on the server as the transfer left it, and latest does
\* not reference the directory, unless one of the given exceptions applies.
NoRollback(exceptions) ==
    \A i \in DOMAIN cmds :
        (cmds[i].op \in {"rsync", "touch", "link"} /\ cmds[i].rc # 0) =>
            LET j == cmds[i].job
                path == SnapshotOf(cmds[i])
            IN  /\ \A k \in (i + 1)..Len(cmds) :
                      ~(cmds[k].op \in {"purge_rsync", "rmdir"} /\ cmds[k].target = path)
                /\ cmds[i].op \in {"touch", "link"} =>
                      \E id \in DOMAIN snapshots[j] :
                          /\ SnapPath(j, id) = path
                          /\ snapshots[j][id].state = "complete"
                /\ (latest[j] # NoLatest /\ SnapPath(j, latest[j]) = path) =>
                      \/ "collision" \in exceptions /\ latest_at_start[j] = latest[j]
                      \/ "link made" \in exceptions /\ cmds[i].op = "link"

\* C21 as stated: after a failed transfer, touch or link the run issues no
\* command that empties or removes the snapshot directory of that backup, and
\* the directory stays on the server, not referenced by latest.
C21_FailedSnapshotOrphaned == NoRollback({})

\* C21 as amended: the same, but latest may reference the directory when it
\* already did as the run began (the backup computed an identifier in use) or
\* when the command that failed was the link (ssh reported a failure of a
\* link that was made).
C21_NoRollback == NoRollback({"collision", "link made"})

\* C21 witness: the touch of the last job's snapshot has failed, the run is
\* ending, the snapshot is on the server and latest references an earlier
\* one.
C21_Witness ==
    /\ pc = "exiting"
    /\ job = NumJobs
    /\ cmds[Len(cmds)].op = "touch"
    /\ cmds[Len(cmds)].rc # 0
    /\ datetime \in DOMAIN snapshots[job]
    /\ latest[job] \notin {NoLatest, datetime}

\* The run has issued a mkdir for job j.
MkdirIssued(j) == \E k \in DOMAIN cmds : cmds[k].op = "mkdir" /\ cmds[k].job = j

C23_PurgeSparesLatest ==
    (retention_days # <<>> /\ retention_days[1] >= 1) =>
        \A i \in DOMAIN cmds :
            (cmds[i].op \in {"purge_rsync", "rmdir"} /\ cmds[i].rc = 0) =>
                \/ latest[cmds[i].job] = NoLatest
                \/ cmds[i].target # SnapPath(cmds[i].job, latest[cmds[i].job])

\* C24: with retention_days configured as 0 the run is that of a
\* configuration without retention_days: no find, mirror-empty transfer or
\* rmdir is issued or about to be, and a job's successful link is followed by
\* the next job's existence check or, after the last job, by the end of the
\* run with status 0.
C24_ZeroRetentionIsNone ==
    retention_days = <<0>> =>
        /\ pc \notin {"find", "purge_rsync", "rmdir"}
        /\ \A i \in DOMAIN cmds :
              /\ cmds[i].op \notin PurgeOps
              /\ (cmds[i].op = "link" /\ cmds[i].rc = 0) =>
                    IF i < Len(cmds)
                       THEN /\ cmds[i + 1].op = "check"
                            /\ cmds[i + 1].job = cmds[i].job + 1
                       ELSE \/ pc = "check" /\ job = cmds[i].job + 1
                            \/ /\ cmds[i].job = NumJobs
                               /\ pc = "exiting"
                               /\ exit_status = 0

\* C24 witness: with retention_days 0 a run has backed up every job and is
\* ending, while the first job's dest_dir holds a directory that is more
\* than 0 days old.
C24_Witness ==
    /\ retention_days = <<0>>
    /\ pc = "exiting"
    /\ exit_status = 0
    /\ \A j \in JobIds : \E i \in DOMAIN cmds : /\ cmds[i].op = "link"
                                                /\ cmds[i].job = j
                                                /\ cmds[i].rc = 0
    /\ Expired(1) # {}

(***************************************************************************)
(*                           The specifications                            *)
(***************************************************************************)
\* Each specification starts from its own initial states, with the variables
\* of the other specifications at rest.
InitLock == LockInit /\ SchedIdle /\ OptIdle /\ RunIdle

SpecLock == InitLock /\ [][LockNext]_vars

InitSchedule == SchedInit /\ LockInit /\ OptIdle /\ RunIdle

SpecSchedule == InitSchedule /\ [][SchedNext]_vars

InitOptions == OptInit /\ LockInit /\ SchedIdle /\ RunIdle

SpecOptions == InitOptions /\ [][OptNext]_vars

Init == RunInit /\ LockInit /\ SchedIdle /\ OptIdle

Spec == Init /\ [][RunNext]_vars
====
